---- MODULE Spec2Model ----
(***************************************************************************)
(* Model of the PaperCutter-VL pipeline: the asset inliner                 *)
(* (convert_images_in_json and its helpers), the orchestrator              *)
(* (run_unified), the HTTP front end (parse_docs) and the engine           *)
(* singleton (_init_pipeline).                                             *)
(*                                                                         *)
(* Strings are sequences of one-character strings, so that prefixes,       *)
(* extensions, path joins and the base64 alphabet are computed and not     *)
(* assumed.  File contents are sequences of bytes.                         *)
(***************************************************************************)
EXTENDS Integers, Sequences, FiniteSets, TLC

(***************************************************************************)
(* Bounds                                                                  *)
(***************************************************************************)
\* number of image references in one extraction output
MaxRefs == 2
\* number of paths in the input list of run_unified
MaxItems == 2
\* number of files in one upload
MaxUploads == 2
\* number of threads calling _init_pipeline
MaxThreads == 3
\* number of HTTP requests served at the same time
MaxRequests == 2
\* number of pages handed to _save_markdown_images
MaxPages == 2
\* number of files in the directory of the rename utilities
MaxFiles == 3

(***************************************************************************)
(* Strings                                                                 *)
(***************************************************************************)
StartsWith(s, pre) == Len(s) >= Len(pre) /\ SubSeq(s, 1, Len(pre)) = pre

S_http == <<"h", "t", "t", "p", ":", "/", "/">>
S_https == <<"h", "t", "t", "p", "s", ":", "/", "/">>
S_data == <<"d", "a", "t", "a", ":">>
S_imgs == <<"i", "m", "g", "s", "/">>
S_base64 == <<";", "b", "a", "s", "e", "6", "4", ",">>

\* the reference strings an extraction output may carry
P_asset == <<"i", "m", "g", "s", "/", "a", ".", "p", "n", "g">>
P_plain == <<"p", "a", "g", "e">>
P_abs == <<"/", "o", "/", "b", ".", "j", "p", "g">>
P_url == <<"h", "t", "t", "p", ":", "/", "/", "h", "/", "a", ".", "p", "n", "g">>
RefStrings == {P_asset, P_plain, P_abs, P_url}

\* base_dir of the call, and the files of the file system
BaseDir == <<"/", "w">>
F_asset == <<"/", "w", "/", "i", "m", "g", "s", "/", "a", ".", "p", "n", "g">>
F_plain == <<"/", "w", "/", "p", "a", "g", "e">>
F_abs == <<"/", "o", "/", "b", ".", "j", "p", "g">>
\* md_path, the aggregated markdown file written by run_unified
F_md == <<"/", "w", "/", "c", "o", "m", "b", "i", "n", "e", "d", ".", "m", "d">>
Files == {F_asset, F_plain, F_abs, F_md}

\* bytes of each file; the bytes of F_asset encode to a string that is
\* also a legal relative file name, those of F_abs are a JPEG header
Content(f) ==
  IF f = F_asset THEN <<165, 168, 30>>
  ELSE IF f = F_plain THEN <<120, 121, 122>>
  ELSE <<255, 216, 255, 224>>

(***************************************************************************)
(* AssetCodec: base64 and mime type                                        *)
(***************************************************************************)
B64Alphabet ==
  <<"A", "B", "C", "D", "E", "F", "G", "H", "I", "J", "K", "L", "M",
    "N", "O", "P", "Q", "R", "S", "T", "U", "V", "W", "X", "Y", "Z",
    "a", "b", "c", "d", "e", "f", "g", "h", "i", "j", "k", "l", "m",
    "n", "o", "p", "q", "r", "s", "t", "u", "v", "w", "x", "y", "z",
    "0", "1", "2", "3", "4", "5", "6", "7", "8", "9", "+", "/">>

Sextet(n) == B64Alphabet[n + 1]

RECURSIVE b64encode(_)
b64encode(bytes) ==
  IF Len(bytes) = 0 THEN <<>>
  ELSE IF Len(bytes) = 1 THEN
    <<Sextet(bytes[1] \div 4), Sextet((bytes[1] % 4) * 16), "=", "=">>
  ELSE IF Len(bytes) = 2 THEN
    <<Sextet(bytes[1] \div 4),
      Sextet((bytes[1] % 4) * 16 + bytes[2] \div 16),
      Sextet((bytes[2] % 16) * 4), "=">>
  ELSE
    <<Sextet(bytes[1] \div 4),
      Sextet((bytes[1] % 4) * 16 + bytes[2] \div 16),
      Sextet((bytes[2] % 16) * 4 + bytes[3] \div 64),
      Sextet(bytes[3] % 64)>> \o b64encode(SubSeq(bytes, 4, Len(bytes)))

\* _to_base64 of a readable file
to_base64(fp) == b64encode(Content(fp))

\* os.path.splitext(fp)[1]: from the last dot of the last component
RECURSIVE LastIndexOf(_, _, _)
LastIndexOf(s, c, i) ==
  IF i = 0 THEN 0 ELSE IF s[i] = c THEN i ELSE LastIndexOf(s, c, i - 1)

splitext(fp) ==
  LET slash == LastIndexOf(fp, "/", Len(fp))
      dot == LastIndexOf(fp, ".", Len(fp))
  IN IF dot > slash + 1 THEN SubSeq(fp, dot, Len(fp)) ELSE <<>>

mime_from_ext(fp) ==
  LET ext == splitext(fp) IN
  IF ext \in {<<".", "j", "p", "g">>, <<".", "j", "p", "e", "g">>}
    THEN <<"i", "m", "a", "g", "e", "/", "j", "p", "e", "g">>
  ELSE IF ext = <<".", "p", "n", "g">>
    THEN <<"i", "m", "a", "g", "e", "/", "p", "n", "g">>
  ELSE IF ext = <<".", "w", "e", "b", "p">>
    THEN <<"i", "m", "a", "g", "e", "/", "w", "e", "b", "p">>
  ELSE IF ext = <<".", "b", "m", "p">>
    THEN <<"i", "m", "a", "g", "e", "/", "b", "m", "p">>
  ELSE IF ext = <<".", "g", "i", "f">>
    THEN <<"i", "m", "a", "g", "e", "/", "g", "i", "f">>
  ELSE IF ext \in {<<".", "t", "i", "f">>, <<".", "t", "i", "f", "f">>}
    THEN <<"i", "m", "a", "g", "e", "/", "t", "i", "f", "f">>
  ELSE <<"a", "p", "p", "l", "i", "c", "a", "t", "i", "o", "n", "/",
         "o", "c", "t", "e", "t", "-", "s", "t", "r", "e", "a", "m">>

DataUri(fp, b64) == S_data \o mime_from_ext(fp) \o S_base64 \o b64

(***************************************************************************)
(* Path resolution                                                         *)
(***************************************************************************)
HasScheme(p) ==
  StartsWith(p, S_http) \/ StartsWith(p, S_https) \/ StartsWith(p, S_data)

isabs(p) == Len(p) > 0 /\ p[1] = "/"

\* full = p if os.path.isabs(p) else os.path.join(base_dir, p)
FullPath(p) == IF isabs(p) THEN p ELSE BaseDir \o <<"/">> \o p

\* variant of os.path.isfile that answers for the name alone
isfile_by_name(d, full) == full \in Files

\* os.path.isfile on the file system d: "absent", "ok", "locked" (the
\* file exists but cannot be opened for reading) or "pinned" (the file is
\* readable but cannot be removed)
isfile(d, full) == full \in Files /\ d[full] # "absent"

(***************************************************************************)
(* The extraction output.  A document is the sequence of its image         *)
(* references in the order the walks visit them; each reference has the    *)
(* place it stands in and the path string it carries.  Items nested in     *)
(* sub_questions get the same transform as top-level items, so a place     *)
(* covers both.  Embedded references that follow each other sit in the     *)
(* same string leaf.                                                       *)
(*   question_images, analysis_images: element of that list                *)
(*   other: whole string value under any other key                         *)
(*   html_double, html_single, markdown: <img src="..">, <img src='..'>,   *)
(*     ![alt](..) inside a string leaf                                     *)
(***************************************************************************)
\* what json.loads does with a candidate string: it returns, it raises
\* JSONDecodeError, or (brackets nested deeper than the interpreter's
\* recursion limit) it raises RecursionError
LoadsOutcomes == {"ok", "JSONDecodeError", "RecursionError"}

FieldPlaces == {"question_images", "analysis_images"}
TextPlaces == {"html_double", "html_single", "markdown"}
Places == FieldPlaces \cup TextPlaces \cup {"other"}

SeqsUpTo(S, n) == UNION {[1..k -> S] : k \in 0..n}

\* walker state: current strings, cache, deletion set, reads per file,
\* and whether an exception is propagating
Walk(c, ca, del, rd) == [cur |-> c, cache |-> ca, del |-> del, reads |-> rd, err |-> FALSE]

EmptyCache == [f \in {} |-> <<>>]
PutCache(ca, f, v) == [g \in DOMAIN ca \cup {f} |-> IF g = f THEN v ELSE ca[g]]


ZeroReads == [f \in Files |-> 0]

\* "except Exception" around a text transform: the exception is swallowed
\* and the string is the one last assigned; what the resolver already put
\* in the cache and the deletion set stays
Caught(w, c) == [w EXCEPT !.cur = c, !.err = FALSE]

(***************************************************************************)
(* Structured-field pass: _convert_paths, _transform_item                  *)
(***************************************************************************)
\* one element of the loop of _convert_paths
convert_paths(w, i, d) ==
  LET p == w.cur[i]
      full == FullPath(p)
  IN IF w.err \/ HasScheme(p) \/ ~isfile(d, full) THEN w
     ELSE IF full \in DOMAIN w.cache THEN [w EXCEPT !.cur[i] = w.cache[full]]
     ELSE IF d[full] = "locked" THEN [w EXCEPT !.err = TRUE]
     ELSE [w EXCEPT !.cur[i] = to_base64(full),
                    !.cache = PutCache(@, full, to_base64(full)),
                    !.del = @ \cup {full},
                    !.reads[full] = @ + 1]

\* _transform_item over all items (and their sub_questions): the elements
\* of question_images / analysis_images, from reference i on
RECURSIVE transform_item(_, _, _, _)
transform_item(w, pl, i, d) ==
  IF i > Len(pl) THEN w
  ELSE transform_item(IF pl[i] \in FieldPlaces THEN convert_paths(w, i, d) ELSE w,
                      pl, i + 1, d)

(***************************************************************************)
(* Textual pass: _inline_convert_images_in_text                            *)
(***************************************************************************)
\* variant of _convert_path that schedules the removal of the file it
\* read without caching the payload
convert_path_uncached(w, i, d, withCache) ==
  LET p == w.cur[i]
      full == FullPath(p)
  IN IF w.err \/ HasScheme(p) \/ ~isfile(d, full) THEN w
     ELSE IF d[full] = "locked" THEN [w EXCEPT !.err = TRUE]
     ELSE [w EXCEPT !.cur[i] = DataUri(full, to_base64(full)),
                    !.del = IF withCache THEN @ \cup {full} ELSE @,
                    !.reads[full] = @ + 1]

\* _convert_path; withCache is "cache and to_delete were passed"
convert_path(w, i, d, withCache) ==
  LET p == w.cur[i]
      full == FullPath(p)
  IN IF w.err \/ HasScheme(p) \/ ~isfile(d, full) THEN w
     ELSE IF withCache /\ full \in DOMAIN w.cache
       THEN [w EXCEPT !.cur[i] = DataUri(full, w.cache[full]),
                      !.del = @ \cup {full}]
     ELSE IF d[full] = "locked" THEN [w EXCEPT !.err = TRUE]
     ELSE [w EXCEPT !.cur[i] = DataUri(full, to_base64(full)),
                    !.cache = IF withCache THEN PutCache(@, full, to_base64(full)) ELSE @,
                    !.del = IF withCache THEN @ \cup {full} ELSE @,
                    !.reads[full] = @ + 1]

\* _html_double / _html_single / _markdown: the replacement callbacks
rewrite_match(w, i, d, withCache) ==
  IF StartsWith(w.cur[i], S_imgs) \/ isabs(w.cur[i])
    THEN convert_path(w, i, d, withCache)
    ELSE w

\* re.sub of one pattern over a text that holds the references idxs
RECURSIVE re_sub(_, _, _, _, _, _, _)
re_sub(w, pl, kind, idxs, i, d, withCache) ==
  IF i > Len(pl) THEN w
  ELSE re_sub(IF i \in idxs /\ pl[i] = kind THEN rewrite_match(w, i, d, withCache) ELSE w,
              pl, kind, idxs, i + 1, d, withCache)

inline_convert_images_in_text(w, pl, idxs, d, withCache) ==
  LET s1 == re_sub(w, pl, "html_double", idxs, 1, d, withCache) IN
  IF s1.err THEN Caught(s1, w.cur)
  ELSE LET s2 == re_sub(s1, pl, "html_single", idxs, 1, d, withCache) IN
    IF s2.err THEN Caught(s2, s1.cur)
    ELSE LET s3 == re_sub(s2, pl, "markdown", idxs, 1, d, withCache) IN
      IF s3.err THEN Caught(s3, s2.cur) ELSE s3

\* the string leaf that begins at reference i: the embedded references
\* from i on that follow each other
LeafStart(pl, i) == pl[i] \in TextPlaces /\ (i = 1 \/ pl[i - 1] \notin TextPlaces)
Leaf(pl, i) == {j \in i..Len(pl) : \A k \in i..j : pl[k] \in TextPlaces}

\* _transform_strings: the textual pass on every string leaf of the tree
RECURSIVE transform_strings(_, _, _, _)
transform_strings(w, pl, i, d) ==
  IF i > Len(pl) THEN w
  ELSE transform_strings(IF LeafStart(pl, i)
                           THEN inline_convert_images_in_text(w, pl, Leaf(pl, i), d, TRUE)
                           ELSE w,
                         pl, i + 1, d)

(***************************************************************************)
(* Regex repair of bare quoted "imgs/..." strings                          *)
(***************************************************************************)
\* _to_b64_text on one match of "(imgs/[^"]+)"
to_b64_text(w, i, d) ==
  LET rel == w.cur[i]
      full == FullPath(rel)
  IN IF w.err \/ ~StartsWith(rel, S_imgs) \/ ~isfile(d, full) THEN w
     ELSE IF d[full] = "locked" THEN [w EXCEPT !.err = TRUE]
     ELSE [w EXCEPT !.cur[i] = to_base64(full), !.reads[full] = @ + 1]

RECURSIVE bare_sub(_, _, _, _, _)
bare_sub(w, pl, idxs, i, d) ==
  IF i > Len(pl) THEN w
  ELSE bare_sub(IF i \in idxs THEN to_b64_text(w, i, d) ELSE w, pl, idxs, i + 1, d)

\* references whose path stands between two double quotes: in the
\* re-serialized JSON the quotes of <img src="..."> are escaped, in a raw
\* text that failed to parse they are not
QuotedIn(pl, parsed) ==
  {i \in 1..Len(pl) : pl[i] \in FieldPlaces \cup {"other"}
                      \/ (~parsed /\ pl[i] = "html_double")}

\* references the three textual patterns can match in that text
MatchableIn(pl, parsed) ==
  {i \in 1..Len(pl) : pl[i] \in {"html_single", "markdown"}
                      \/ (~parsed /\ pl[i] = "html_double")}

\* json.dumps and the try block after it (the test '"imgs/" in s' only
\* skips a substitution that would match nothing)
regex_repair(w, pl, d) ==
  LET r == bare_sub(w, pl, QuotedIn(pl, TRUE), 1, d) IN
  IF r.err THEN Caught(r, w.cur)
  ELSE inline_convert_images_in_text(r, pl, MatchableIn(pl, TRUE), d, TRUE)

\* the except branch of json.loads
parse_failure(w, pl, d) ==
  LET t == inline_convert_images_in_text(w, pl, MatchableIn(pl, FALSE), d, FALSE)
      r == bare_sub(t, pl, QuotedIn(pl, FALSE), 1, d)
  IN IF r.err THEN Caught(r, w.cur) ELSE r

\* os.remove(fp) inside "try ... except Exception: pass": a file that
\* cannot be removed stays, and nothing is raised
os_remove(d, fp) == IF d[fp] = "pinned" THEN d ELSE [d EXCEPT ![fp] = "absent"]

\* variant of the cleanup loop that ends at the first removal that fails
purge_until_failure(d, del) ==
  IF \E f \in del : d[f] = "pinned" THEN d
  ELSE [f \in Files |-> IF f \in del THEN "absent" ELSE d[f]]

\* the cleanup loop: os.remove of every path of to_delete, each in its own
\* try block
purge(d, del) == [f \in Files |-> IF f \in del THEN os_remove(d, f)[f] ELSE d[f]]


(***************************************************************************)
(* State                                                                   *)
(***************************************************************************)
VARIABLES
  fs,          \* file system: file -> "absent" | "ok" | "locked" | "pinned"
  places,      \* the place of each reference of the candidate string
  json_input,  \* the path string of each reference of the candidate string
  parses,      \* json.loads(json_input): "ok" or the exception it raises
  data,        \* the string of each reference as transformed so far
  cache,       \* cache: resolved path -> base64 payload
  to_delete,   \* to_delete: resolved paths to remove
  reads,       \* number of times _to_base64 read each file in this call
  ipc,         \* position inside convert_images_in_json
  reapplied,   \* the call under way takes the previous call's output
  prev_out     \* the output of the previous call

inliner_vars == <<fs, places, json_input, parses, data, cache, to_delete,
                  reads, ipc, reapplied, prev_out>>

VARIABLES
  disk,          \* the input files: name -> file or directory
  uploads,       \* the files of the HTTP upload, in upload order
  input_arg,     \* input_arg of run_unified: a list of paths or one path
  todo,          \* the inputs run_unified has still to recognize
  markdown_list, \* markdown_list: the pages recognized so far
  predicts,      \* number of pipeline.predict calls of this run
  extracts,      \* number of extract_content calls of this run
  converts,      \* number of convert_images_in_json calls of this run
  rpc,           \* position inside run_unified
  outcome,       \* how run_unified ended: "none", "ok" or the exception
  hpc,           \* position inside parse_docs ("cli": no HTTP request)
  status         \* HTTP status of the response, 0 before it

run_vars == <<disk, uploads, input_arg, todo, markdown_list, predicts,
              extracts, converts, rpc, outcome, hpc, status>>

VARIABLES
  instance,    \* _PIPELINE_INSTANCE: 0 is None, else the engine built k-th
  lock,        \* _PIPELINE_LOCK: 0 is free, else the thread holding it
  tpc,         \* position of each thread inside _init_pipeline
  built,       \* number of times the PaddleOCRVL constructor ran
  got          \* what the last _init_pipeline call of each thread returned

engine_vars == <<instance, lock, tpc, built, got>>

VARIABLES
  rq,          \* the HTTP requests in flight: position and local variables
  store        \* the files of the server's disk, by path

pair_vars == <<rq, store>>

VARIABLES
  question,    \* a Question object of the extraction output, as a tree
  qpc          \* position of the tree inside convert_images_in_json

schema_vars == <<question, qpc>>

VARIABLES
  markdown_images, \* markdown_images: per page, the relative paths it declares
  saved,           \* the files under output_dir: path -> image
  made_dirs,       \* the directories that exist
  spc              \* number of pages _save_markdown_images has done

save_vars == <<markdown_images, saved, made_dirs, spc>>

VARIABLES
  folder,      \* the directory: file name -> the content it holds
  image_files, \* the sorted names the utility listed at its start
  index,       \* index of the loop: the number of the next new name
  utility,     \* which of the two utilities runs
  npc          \* position inside the utility

rename_vars == <<folder, image_files, index, utility, npc>>

tool_vars == <<save_vars, rename_vars>>

vars == <<inliner_vars, run_vars, engine_vars, pair_vars, schema_vars, tool_vars>>

(***************************************************************************)
(* convert_images_in_json, one action per stage                            *)
(***************************************************************************)
\* file systems an inlining call may meet
InlineFS ==
  {d \in [Files -> {"absent", "ok", "locked", "pinned"}] :
     /\ d[F_plain] \in {"absent", "ok"}
     /\ d[F_abs] \in {"absent", "ok"}
     /\ d[F_md] = "absent"}

InlinerStart ==
  /\ places \in SeqsUpTo(Places, MaxRefs)
  /\ json_input \in [1..Len(places) -> RefStrings]
  /\ parses \in LoadsOutcomes
  /\ data = json_input
  /\ cache = EmptyCache
  /\ to_delete = {}
  /\ reads = ZeroReads
  /\ ipc = "call"
  /\ reapplied = FALSE
  /\ prev_out = <<>>

\* try: data = json.loads(json_input); cache = {}; to_delete = set().
\* "except json.JSONDecodeError" is the one handler: another exception of
\* json.loads leaves the call
Parse ==
  /\ UNCHANGED <<run_vars, engine_vars, pair_vars, schema_vars, tool_vars>>
  /\ ipc = "call"
  /\ ipc' = IF parses = "ok" THEN "transform_item"
            ELSE IF parses = "JSONDecodeError" THEN "parse_failure"
            ELSE "raised"
  /\ cache' = EmptyCache
  /\ to_delete' = {}
  /\ UNCHANGED <<fs, places, json_input, parses, data, reads, reapplied, prev_out>>

\* data = [_transform_item(x, ...) for x in data]; a read error propagates
TransformItem ==
  /\ UNCHANGED <<run_vars, engine_vars, pair_vars, schema_vars, tool_vars>>
  /\ ipc = "transform_item"
  /\ LET w == transform_item(Walk(data, cache, to_delete, reads), places, 1, fs) IN
       /\ data' = w.cur
       /\ cache' = w.cache
       /\ to_delete' = w.del
       /\ reads' = w.reads
       /\ ipc' = IF w.err THEN "raised" ELSE "transform_strings"
  /\ UNCHANGED <<fs, places, json_input, parses, reapplied, prev_out>>

\* data = [_transform_strings(x, ...) for x in data]
TransformStrings ==
  /\ UNCHANGED <<run_vars, engine_vars, pair_vars, schema_vars, tool_vars>>
  /\ ipc = "transform_strings"
  /\ LET w == transform_strings(Walk(data, cache, to_delete, reads), places, 1, fs) IN
       /\ data' = w.cur
       /\ cache' = w.cache
       /\ to_delete' = w.del
       /\ reads' = w.reads
  /\ ipc' = "regex_repair"
  /\ UNCHANGED <<fs, places, json_input, parses, reapplied, prev_out>>

\* s = json.dumps(data); the bare-path substitution; the textual pass on s
RegexRepair ==
  /\ UNCHANGED <<run_vars, engine_vars, pair_vars, schema_vars, tool_vars>>
  /\ ipc = "regex_repair"
  /\ LET w == regex_repair(Walk(data, cache, to_delete, reads), places, fs) IN
       /\ data' = w.cur
       /\ cache' = w.cache
       /\ to_delete' = w.del
       /\ reads' = w.reads
  /\ ipc' = "cleanup"
  /\ UNCHANGED <<fs, places, json_input, parses, reapplied, prev_out>>

\* for fp in to_delete: os.remove(fp); return s
Cleanup ==
  /\ UNCHANGED <<run_vars, engine_vars, pair_vars, schema_vars, tool_vars>>
  /\ ipc = "cleanup"
  /\ fs' = purge(fs, to_delete)
  /\ ipc' = "returned"
  /\ UNCHANGED <<places, json_input, parses, data, cache, to_delete, reads,
                 reapplied, prev_out>>

\* except json.JSONDecodeError: textual pass and bare-path substitution on
\* the raw text, without cache and without deletion set
ParseFailure ==
  /\ UNCHANGED <<run_vars, engine_vars, pair_vars, schema_vars, tool_vars>>
  /\ ipc = "parse_failure"
  /\ LET w == parse_failure(Walk(data, cache, to_delete, reads), places, fs) IN
       /\ data' = w.cur
       /\ reads' = w.reads
  /\ ipc' = "returned"
  /\ UNCHANGED <<fs, places, json_input, parses, cache, to_delete, reapplied, prev_out>>

\* a second call of convert_images_in_json on the returned string, with
\* the same base_dir.  json.dumps output parses again; a raw text that did
\* not parse still does not after its paths were replaced
Reapply ==
  /\ UNCHANGED <<run_vars, engine_vars, pair_vars, schema_vars, tool_vars>>
  /\ ipc = "returned"
  /\ ~reapplied
  /\ reapplied' = TRUE
  /\ prev_out' = data
  /\ json_input' = data
  /\ reads' = ZeroReads
  /\ ipc' = "call"
  /\ UNCHANGED <<fs, places, parses, data, cache, to_delete>>

InlinerNext ==
  \/ Parse
  \/ TransformItem
  \/ TransformStrings
  \/ RegexRepair
  \/ Cleanup
  \/ ParseFailure


\* the whole call, as run_unified makes it: the walker after the last
\* stage (err: an exception left the call, and the cleanup did not run)
convert_images_in_json(c, pl, loads, d) ==
  LET w0 == Walk(c, EmptyCache, {}, ZeroReads) IN
  IF loads = "RecursionError" THEN [w0 EXCEPT !.err = TRUE]
  ELSE IF loads = "JSONDecodeError" THEN parse_failure(w0, pl, d)
  ELSE LET a == transform_item(w0, pl, 1, d) IN
    IF a.err THEN a
    ELSE regex_repair(transform_strings(a, pl, 1, d), pl, d)

InlinerIdle ==
  /\ places = <<>>
  /\ json_input = <<>>
  /\ parses = "ok"
  /\ data = <<>>
  /\ cache = EmptyCache
  /\ to_delete = {}
  /\ reads = ZeroReads
  /\ ipc = "idle"
  /\ reapplied = FALSE
  /\ prev_out = <<>>


(***************************************************************************)
(* Input files                                                             *)
(***************************************************************************)
N_img == <<"p", ".", "p", "n", "g">>
N_bad == <<"q", ".", "p", "n", "g">>
N_pdf == <<"d", ".", "p", "d", "f">>
N_pdf0 == <<"e", ".", "p", "d", "f">>
N_dir == <<"d", "i", "r">>
N_emp == <<"e", "m", "p">>
N_txt == <<"n", ".", "t", "x", "t">>
N_gone == <<"g", "o", "n", "e">>
E_10 == <<"1", "0", ".", "p", "n", "g">>
E_2 == <<"2", ".", "p", "n", "g">>

ImageExts ==
  {<<".", "p", "n", "g">>, <<".", "j", "p", "g">>, <<".", "j", "p", "e", "g">>,
   <<".", "b", "m", "p">>, <<".", "t", "i", "f">>, <<".", "t", "i", "f", "f">>,
   <<".", "w", "e", "b", "p">>}

\* p.suffix.lower() == ".pdf" (the names of the model are lower case)
is_pdf(name) == splitext(name) = <<".", "p", "d", "f">>
is_image(name) == splitext(name) \in ImageExts

\* a file: what cv2.imread and pipeline.predict make of its content;
\* a directory: its entries
File(id, dec, n) ==
  [kind |-> "file", id |-> id, decodes |-> dec, npages |-> n, entries |-> <<>>]
Dir(es) ==
  [kind |-> "dir", id |-> "", decodes |-> FALSE, npages |-> 0, entries |-> es]

DirEntries ==
  [n \in {E_10, E_2, N_txt} |->
     IF n = E_10 THEN File("dir/10.png", TRUE, 0)
     ELSE IF n = E_2 THEN File("dir/2.png", TRUE, 0)
     ELSE File("dir/n.txt", FALSE, 0)]

NoEntries == [n \in {} |-> File("", FALSE, 0)]

\* the files a command-line run finds; N_gone does not exist
CliNames == {N_img, N_bad, N_pdf, N_pdf0, N_dir, N_emp, N_txt, N_gone}
CliDisk ==
  [n \in CliNames \ {N_gone} |->
     IF n = N_img THEN File("p.png", TRUE, 0)
     ELSE IF n = N_bad THEN File("q.png", FALSE, 0)
     ELSE IF n = N_pdf THEN File("d.pdf", FALSE, 2)
     ELSE IF n = N_pdf0 THEN File("e.pdf", FALSE, 0)
     ELSE IF n = N_dir THEN Dir(DirEntries)
     ELSE IF n = N_emp THEN Dir(NoEntries)
     ELSE File("n.txt", FALSE, 0)]

EmptyDisk == [n \in {} |-> File("", FALSE, 0)]

\* the files a client may upload: filename and content
UploadKinds ==
  {[filename |-> N_img, decodes |-> TRUE, npages |-> 0],
   [filename |-> N_bad, decodes |-> FALSE, npages |-> 0],
   [filename |-> N_pdf, decodes |-> FALSE, npages |-> 2],
   [filename |-> N_txt, decodes |-> FALSE, npages |-> 0]}
UploadIds == <<"upload1", "upload2", "upload3", "upload4">>

(***************************************************************************)
(* Directory listing and sorting                                           *)
(***************************************************************************)
Ascii ==
  <<".", "/", "0", "1", "2", "3", "4", "5", "6", "7", "8", "9", "_",
    "a", "b", "c", "d", "e", "f", "g", "h", "i", "j", "k", "l", "m",
    "n", "o", "p", "q", "r", "s", "t", "u", "v", "w", "x", "y", "z">>
Code(c) == CHOOSE i \in 1..Len(Ascii) : Ascii[i] = c

\* a < b on strings
RECURSIVE str_less(_, _)
str_less(a, b) ==
  IF Len(b) = 0 THEN FALSE
  ELSE IF Len(a) = 0 THEN TRUE
  ELSE IF a[1] = b[1] THEN str_less(Tail(a), Tail(b))
  ELSE Code(a[1]) < Code(b[1])

RECURSIVE insort(_, _)
insort(x, s) ==
  IF s = <<>> THEN <<x>>
  ELSE IF str_less(x, s[1]) THEN <<x>> \o s
  ELSE <<s[1]>> \o insort(x, Tail(s))

RECURSIVE sorted(_)
sorted(s) == IF s = <<>> THEN <<>> ELSE insort(s[1], sorted(Tail(s)))

Perms(S) ==
  {q \in [1..Cardinality(S) -> S] : \A i, j \in DOMAIN q : i # j => q[i] # q[j]}

\* d.iterdir() yields the entries in any order
Listings(obj) == IF obj.kind = "dir" THEN Perms(DOMAIN obj.entries) ELSE {<<>>}

\* variant of _collect_images_from_dir that keeps the listing order
collect_images_unsorted(obj, listing) ==
  LET keep(n) == obj.entries[n].kind = "file" /\ is_image(n)
  IN SelectSeq(listing, keep)

\* _collect_images_from_dir on the listing of a directory
collect_images_from_dir(obj, listing) ==
  LET keep(n) == obj.entries[n].kind = "file" /\ is_image(n)
  IN sorted(SelectSeq(listing, keep))

(***************************************************************************)
(* Recognition                                                             *)
(***************************************************************************)
Page(id, k) == [src |-> id, no |-> k]

\* cv2.imread, pipeline.predict and the loop over the results, for a file
recognize_file(name, obj) ==
  IF is_pdf(name)
    THEN [pages |-> [k \in 1..obj.npages |-> Page(obj.id, k)], calls |-> 1]
  ELSE IF is_image(name) /\ obj.decodes
    THEN [pages |-> <<Page(obj.id, 1)>>, calls |-> 1]
  ELSE [pages |-> <<>>, calls |-> 0]

\* the loop over the images of a directory
RECURSIVE recognize_images(_, _)
recognize_images(obj, imgs) ==
  IF imgs = <<>> THEN [pages |-> <<>>, calls |-> 0]
  ELSE LET a == recognize_file(imgs[1], obj.entries[imgs[1]])
           b == recognize_images(obj, Tail(imgs))
       IN [pages |-> a.pages \o b.pages, calls |-> a.calls + b.calls]

\* the markdown_images of a page: the asset files it declares
page_assets(pg) == IF pg.no = 1 THEN {F_asset} ELSE {}

\* pipeline.concatenate_markdown_pages belongs to the engine; what it does
\* with no page at all is not fixed by this repository
ConcatOutcomes(pages) == IF pages = <<>> THEN {"text", "error"} ELSE {"text"}

(***************************************************************************)
(* run_unified                                                             *)
(***************************************************************************)
Exists(p) == p \in DOMAIN disk

Handle(name, obj) == [name |-> name, obj |-> obj]

Raise(e) == rpc' = "raised" /\ outcome' = e

\* from the entry of run_unified to the first recognition: the filter of
\* the list form, the checks of the single-path forms
RunBegin ==
  /\ rpc = "start"
  /\ IF input_arg.is_list THEN
       LET valid == SelectSeq(input_arg.paths, Exists) IN
       IF valid = <<>>
         THEN Raise("ValueError") /\ UNCHANGED todo
         ELSE /\ todo' = [i \in 1..Len(valid) |-> Handle(valid[i], disk[valid[i]])]
              /\ rpc' = "recognize"
              /\ UNCHANGED outcome
     ELSE
       LET p == input_arg.paths[1] IN
       IF ~Exists(p)
         THEN Raise("FileNotFoundError") /\ UNCHANGED todo
       ELSE IF disk[p].kind = "file" THEN
         IF is_pdf(p) \/ is_image(p)
           THEN /\ todo' = <<Handle(p, disk[p])>>
                /\ rpc' = "recognize"
                /\ UNCHANGED outcome
           ELSE Raise("ValueError") /\ UNCHANGED todo
       ELSE
         \E listing \in Listings(disk[p]) :
           LET imgs == collect_images_from_dir(disk[p], listing) IN
           IF imgs = <<>>
             THEN Raise("ValueError") /\ UNCHANGED todo
             ELSE /\ todo' = [i \in 1..Len(imgs) |->
                               Handle(imgs[i], disk[p].entries[imgs[i]])]
                  /\ rpc' = "recognize"
                  /\ UNCHANGED outcome
  /\ UNCHANGED <<disk, uploads, input_arg, markdown_list, predicts, extracts, converts,
                 hpc, status>>
  /\ UNCHANGED <<inliner_vars, engine_vars, pair_vars, schema_vars, tool_vars>>

\* one iteration of "for p in valid" (of "for p in image_paths" in
\* _process_images): a directory, a PDF, an image, or something skipped
RecognizeItem ==
  /\ rpc = "recognize"
  /\ todo # <<>>
  /\ LET h == Head(todo) IN
     \E listing \in Listings(h.obj) :
       LET r == IF h.obj.kind = "dir"
                  THEN recognize_images(h.obj, collect_images_from_dir(h.obj, listing))
                  ELSE recognize_file(h.name, h.obj)
       IN /\ markdown_list' = markdown_list \o r.pages
          /\ predicts' = predicts + r.calls
  /\ todo' = Tail(todo)
  /\ UNCHANGED <<disk, uploads, input_arg, extracts, converts, rpc, outcome, hpc, status>>
  /\ UNCHANGED <<inliner_vars, engine_vars, pair_vars, schema_vars, tool_vars>>

\* after the loop: the emptiness check of the list form, then
\* concatenate_markdown_pages, the write of md_path, _save_markdown_images
Aggregate ==
  /\ rpc = "recognize"
  /\ todo = <<>>
  /\ IF input_arg.is_list /\ markdown_list = <<>>
       THEN Raise("ValueError") /\ UNCHANGED fs
       ELSE \E r \in ConcatOutcomes(markdown_list) :
              IF r = "error"
                THEN Raise("Exception") /\ UNCHANGED fs
                ELSE /\ fs' = [f \in Files |->
                                IF f = F_md THEN "ok"
                                ELSE IF \E i \in DOMAIN markdown_list :
                                          f \in page_assets(markdown_list[i])
                                  THEN "ok"
                                ELSE fs[f]]
                     /\ rpc' = "extract"
                     /\ UNCHANGED outcome
  /\ UNCHANGED <<disk, uploads, input_arg, todo, markdown_list, predicts,
                 extracts, converts, hpc, status>>
  /\ UNCHANGED <<places, json_input, parses, data, cache, to_delete, reads,
                 ipc, reapplied, prev_out>>
  /\ UNCHANGED <<engine_vars, pair_vars, schema_vars, tool_vars>>

\* what the completion endpoint may answer in a run
RunPlaces == {"question_images", "other"}
RunStrings == {P_asset, P_abs}

\* content = extract_content(texts): the endpoint answers anything, or the
\* call raises an error of the client library (APIError: no ValueError,
\* no FileNotFoundError)
Extract ==
  /\ rpc = "extract"
  /\ extracts' = extracts + 1
  /\ \/ /\ Raise("APIError")
        /\ UNCHANGED <<places, json_input, parses, data>>
     \/ /\ places' \in SeqsUpTo(RunPlaces, MaxRefs)
        /\ json_input' \in [1..Len(places') -> RunStrings]
        /\ parses' \in LoadsOutcomes
        /\ data' = json_input'
        /\ rpc' = "convert"
        /\ UNCHANGED outcome
  /\ UNCHANGED <<disk, uploads, input_arg, todo, markdown_list, predicts,
                 converts, hpc, status>>
  /\ UNCHANGED <<fs, cache, to_delete, reads, ipc, reapplied, prev_out>>
  /\ UNCHANGED <<engine_vars, pair_vars, schema_vars, tool_vars>>

\* converted = convert_images_in_json(content, base_dir=str(out_dir))
Convert ==
  /\ rpc = "convert"
  /\ converts' = converts + 1
  /\ LET w == convert_images_in_json(json_input, places, parses, fs) IN
       /\ data' = w.cur
       /\ cache' = w.cache
       /\ to_delete' = w.del
       /\ reads' = w.reads
       /\ IF w.err
            THEN Raise("Exception") /\ UNCHANGED fs
            ELSE /\ fs' = purge(fs, w.del)
                 /\ rpc' = "remove_md"
                 /\ UNCHANGED outcome
  /\ UNCHANGED <<disk, uploads, input_arg, todo, markdown_list, predicts,
                 extracts, hpc, status>>
  /\ UNCHANGED <<places, json_input, parses, ipc, reapplied, prev_out>>
  /\ UNCHANGED <<engine_vars, pair_vars, schema_vars, tool_vars>>

\* os.remove(md_path); return converted
RemoveMarkdown ==
  /\ rpc = "remove_md"
  /\ fs' = os_remove(fs, F_md)
  /\ rpc' = "done"
  /\ outcome' = "ok"
  /\ UNCHANGED <<disk, uploads, input_arg, todo, markdown_list, predicts,
                 extracts, converts, hpc, status>>
  /\ UNCHANGED <<places, json_input, parses, data, cache, to_delete, reads,
                 ipc, reapplied, prev_out>>
  /\ UNCHANGED <<engine_vars, pair_vars, schema_vars, tool_vars>>


(***************************************************************************)
(* parse_docs                                                              *)
(***************************************************************************)
\* variant of _classify_files that takes every file that is no PDF for an
\* image
classify_files_lenient(files) ==
  LET idx == [i \in 1..Len(files) |-> i]
      pdf(i) == is_pdf(files[i].filename)
      img(i) == ~pdf(i)
  IN [images |-> SelectSeq(idx, img),
      pdfs |-> SelectSeq(idx, pdf),
      warnings |-> <<>>]

\* _classify_files: the positions of the images and of the PDFs in files
classify_files(files) ==
  LET idx == [i \in 1..Len(files) |-> i]
      img(i) == is_image(files[i].filename)
      pdf(i) == is_pdf(files[i].filename)
      bad(i) == ~img(i) /\ ~pdf(i)
  IN [images |-> SelectSeq(idx, img),
      pdfs |-> SelectSeq(idx, pdf),
      warnings |-> SelectSeq(idx, bad)]

\* _save_uploads: every file is written at uploads/<request_id>/<filename>
RECURSIVE save_uploads(_, _, _)
save_uploads(d, files, which) ==
  IF which = <<>> THEN d
  ELSE LET i == which[1]
           f == File(UploadIds[i], files[i].decodes, files[i].npages)
           name == files[i].filename
       IN save_uploads([n \in DOMAIN d \cup {name} |-> IF n = name THEN f ELSE d[n]],
                       files, Tail(which))

\* variant of _map_error_to_status that blames the client for every error
map_error_to_status_client(e) == 400

map_error_to_status(e) ==
  IF e \in {"FileNotFoundError", "ValueError"} THEN 400 ELSE 500

\* the checks of parse_docs before a request id is drawn
Validate ==
  /\ hpc = "received"
  /\ LET c == classify_files(uploads) IN
     IF uploads = <<>> \/ (c.images = <<>> /\ c.pdfs = <<>>) \/ Len(c.pdfs) > 1
       THEN hpc' = "rejected" /\ status' = 400
       ELSE hpc' = "accepted" /\ UNCHANGED status
  /\ UNCHANGED <<disk, uploads, input_arg, todo, markdown_list, predicts,
                 extracts, converts, rpc, outcome>>
  /\ UNCHANGED <<inliner_vars, engine_vars, pair_vars, schema_vars, tool_vars>>

\* to_save = images + pdfs; saved_paths = _save_uploads(...); input_arg =
\* the saved paths; run_unified is started on them
SaveUploads ==
  /\ hpc = "accepted"
  /\ LET c == classify_files(uploads)
         to_save == c.images \o c.pdfs
     IN /\ disk' = save_uploads(disk, uploads, to_save)
        /\ input_arg' = [is_list |-> TRUE,
                         paths |-> [k \in 1..Len(to_save) |-> uploads[to_save[k]].filename]]
  /\ rpc' = "start"
  /\ hpc' = "running"
  /\ UNCHANGED <<uploads, todo, markdown_list, predicts, extracts, converts, outcome, status>>
  /\ UNCHANGED <<inliner_vars, engine_vars, pair_vars, schema_vars, tool_vars>>

\* the JSONResponse of the success path and of the except branch
Respond ==
  /\ hpc = "running"
  /\ rpc \in {"done", "raised"}
  /\ status' = IF outcome = "ok" THEN 200 ELSE map_error_to_status(outcome)
  /\ hpc' = "responded"
  /\ UNCHANGED <<disk, uploads, input_arg, todo, markdown_list, predicts,
                 extracts, converts, rpc, outcome>>
  /\ UNCHANGED <<inliner_vars, engine_vars, pair_vars, schema_vars, tool_vars>>

\* background_tasks: shutil.rmtree(uploads_dir, ignore_errors=True), run
\* after the response was sent
BackgroundTasks ==
  /\ hpc = "responded"
  /\ disk' = EmptyDisk
  /\ hpc' = "completed"
  /\ UNCHANGED <<uploads, input_arg, todo, markdown_list, predicts,
                 extracts, converts, rpc, outcome, status>>
  /\ UNCHANGED <<inliner_vars, engine_vars, pair_vars, schema_vars, tool_vars>>

(***************************************************************************)
(* _init_pipeline                                                          *)
(***************************************************************************)
Threads == 1..MaxThreads

\* variant of _init_pipeline without the test under the lock
second_check_skipped(inst) == FALSE

\* the test "_PIPELINE_INSTANCE is not None" made under the lock
second_check(inst) == inst # 0

\* a thread enters _init_pipeline
Call(t) ==
  /\ tpc[t] = "idle"
  /\ tpc' = [tpc EXCEPT ![t] = "first_check"]
  /\ UNCHANGED <<instance, lock, built, got>>
  /\ UNCHANGED <<inliner_vars, run_vars, pair_vars, schema_vars, tool_vars>>

\* if _PIPELINE_INSTANCE is not None: return _PIPELINE_INSTANCE
FirstCheck(t) ==
  /\ tpc[t] = "first_check"
  /\ IF instance # 0
       THEN got' = [got EXCEPT ![t] = instance] /\ tpc' = [tpc EXCEPT ![t] = "idle"]
       ELSE tpc' = [tpc EXCEPT ![t] = "acquire"] /\ UNCHANGED got
  /\ UNCHANGED <<instance, lock, built>>
  /\ UNCHANGED <<inliner_vars, run_vars, pair_vars, schema_vars, tool_vars>>

\* with _PIPELINE_LOCK:
Acquire(t) ==
  /\ tpc[t] = "acquire"
  /\ lock = 0
  /\ lock' = t
  /\ tpc' = [tpc EXCEPT ![t] = "second_check"]
  /\ UNCHANGED <<instance, built, got>>
  /\ UNCHANGED <<inliner_vars, run_vars, pair_vars, schema_vars, tool_vars>>

\* the second test; returning leaves the with block and frees the lock
SecondCheck(t) ==
  /\ tpc[t] = "second_check"
  /\ IF second_check(instance)
       THEN /\ got' = [got EXCEPT ![t] = instance]
            /\ lock' = 0
            /\ tpc' = [tpc EXCEPT ![t] = "idle"]
       ELSE /\ tpc' = [tpc EXCEPT ![t] = "construct"]
            /\ UNCHANGED <<got, lock>>
  /\ UNCHANGED <<instance, built>>
  /\ UNCHANGED <<inliner_vars, run_vars, pair_vars, schema_vars, tool_vars>>

\* PaddleOCRVL(...) runs
Construct(t) ==
  /\ tpc[t] = "construct"
  /\ built' = built + 1
  /\ tpc' = [tpc EXCEPT ![t] = "assign"]
  /\ UNCHANGED <<instance, lock, got>>
  /\ UNCHANGED <<inliner_vars, run_vars, pair_vars, schema_vars, tool_vars>>

\* _PIPELINE_INSTANCE = <the engine just built>
Assign(t) ==
  /\ tpc[t] = "assign"
  /\ instance' = built
  /\ tpc' = [tpc EXCEPT ![t] = "return"]
  /\ UNCHANGED <<lock, built, got>>
  /\ UNCHANGED <<inliner_vars, run_vars, pair_vars, schema_vars, tool_vars>>

\* return _PIPELINE_INSTANCE, leaving the with block
Return(t) ==
  /\ tpc[t] = "return"
  /\ got' = [got EXCEPT ![t] = instance]
  /\ lock' = 0
  /\ tpc' = [tpc EXCEPT ![t] = "idle"]
  /\ UNCHANGED <<instance, built>>
  /\ UNCHANGED <<inliner_vars, run_vars, pair_vars, schema_vars, tool_vars>>

(***************************************************************************)
(* Concurrent requests: parse_docs, and run_unified under it, for several  *)
(* requests at once; one action per step that touches the disk or the      *)
(* local variables of a request                                            *)
(***************************************************************************)
Requests == 1..MaxRequests

\* request_id = uuid.uuid4().hex: every request draws an id of its own
IdNames == <<<<"1">>, <<"2">>, <<"3">>, <<"4">>>>

\* Path(__file__).parent
AppDir == <<"/", "a", "p", "p">>

\* os.path.join(base, p); the same for the / of pathlib
join(base, p) == IF isabs(p) THEN p ELSE base \o <<"/">> \o p

uploads_dir(request_id) ==
  join(join(AppDir, <<"u", "p", "l", "o", "a", "d", "s">>), request_id)

\* variant of output_dir that is one directory for all requests
output_dir_shared(request_id) ==
  join(join(AppDir, <<"o", "u", "t", "p", "u", "t">>), <<"a", "p", "i">>)

output_dir(request_id) ==
  join(join(join(AppDir, <<"o", "u", "t", "p", "u", "t">>), <<"a", "p", "i">>),
       request_id)

md_path(request_id) ==
  join(output_dir(request_id),
       <<"c", "o", "m", "b", "i", "n", "e", "d", ".", "m", "d">>)

\* the extraction outputs of a request, as the references they carry: the
\* page asset of the request, a file outside the server's directories
PairDocs == {<<>>, <<P_asset>>, <<P_abs>>, <<P_asset, P_abs>>}

\* a request that has not arrived yet
NoRequest ==
  [pc |-> "idle", request_id |-> <<>>, filename |-> <<>>, content |-> <<>>,
   k |-> 0, cache |-> {}, to_delete |-> {}, written |-> {}]

\* the resolved path of the reference the inliner of r is at
full(r) == join(output_dir(rq[r].request_id), rq[r].content[rq[r].k])

\* request_id, output_dir and uploads_dir of a validated request
Receive(r) ==
  /\ rq[r].pc = "idle"
  /\ \E name \in {N_img, N_pdf} :
       rq' = [rq EXCEPT ![r].pc = "save", ![r].request_id = IdNames[r],
                        ![r].filename = name]
  /\ UNCHANGED store
  /\ UNCHANGED <<inliner_vars, run_vars, engine_vars, schema_vars, tool_vars>>

\* _save_uploads: local_path.write_bytes(content)
SaveUpload(r) ==
  /\ rq[r].pc = "save"
  /\ LET local_path == join(uploads_dir(rq[r].request_id), rq[r].filename) IN
       /\ store' = store \cup {local_path}
       /\ rq' = [rq EXCEPT ![r].pc = "aggregate", ![r].written = @ \cup {local_path}]
  /\ UNCHANGED <<inliner_vars, run_vars, engine_vars, schema_vars, tool_vars>>

\* run_unified: the write of md_path and _save_markdown_images
WriteMarkdown(r) ==
  /\ rq[r].pc = "aggregate"
  /\ LET new == {md_path(rq[r].request_id),
                 join(output_dir(rq[r].request_id), P_asset)} IN
       /\ store' = store \cup new
       /\ rq' = [rq EXCEPT ![r].pc = "extract", ![r].written = @ \cup new]
  /\ UNCHANGED <<inliner_vars, run_vars, engine_vars, schema_vars, tool_vars>>

\* content = extract_content(texts), or the call raises
ExtractContent(r) ==
  /\ rq[r].pc = "extract"
  /\ \/ rq' = [rq EXCEPT ![r].pc = "respond"]
     \/ \E doc \in PairDocs :
          rq' = [rq EXCEPT ![r].pc = "convert", ![r].content = doc]
  /\ UNCHANGED store
  /\ UNCHANGED <<inliner_vars, run_vars, engine_vars, schema_vars, tool_vars>>

\* convert_images_in_json: cache = {}; to_delete = set()
ConvertStart(r) ==
  /\ rq[r].pc = "convert"
  /\ rq' = [rq EXCEPT ![r].pc = "resolve", ![r].k = 1,
                      ![r].cache = {}, ![r].to_delete = {}]
  /\ UNCHANGED store
  /\ UNCHANGED <<inliner_vars, run_vars, engine_vars, schema_vars, tool_vars>>

\* os.path.isfile(full), and the look into the cache
CheckRef(r) ==
  /\ rq[r].pc = "resolve"
  /\ rq[r].k <= Len(rq[r].content)
  /\ rq' = IF full(r) \in store /\ full(r) \notin rq[r].cache
             THEN [rq EXCEPT ![r].pc = "read"]
             ELSE [rq EXCEPT ![r].k = @ + 1]
  /\ UNCHANGED store
  /\ UNCHANGED <<inliner_vars, run_vars, engine_vars, schema_vars, tool_vars>>

\* b64 = _to_base64(full); cache[full] = b64; to_delete.add(full).  The
\* read raises when the file is gone by now, and the error leaves run_unified
ReadRef(r) ==
  /\ rq[r].pc = "read"
  /\ rq' = IF full(r) \in store
             THEN [rq EXCEPT ![r].pc = "resolve", ![r].k = @ + 1,
                             ![r].cache = @ \cup {full(r)},
                             ![r].to_delete = @ \cup {full(r)}]
             ELSE [rq EXCEPT ![r].pc = "respond"]
  /\ UNCHANGED store
  /\ UNCHANGED <<inliner_vars, run_vars, engine_vars, schema_vars, tool_vars>>

\* for fp in to_delete: os.remove(fp)
Purge(r) ==
  /\ rq[r].pc = "resolve"
  /\ rq[r].k > Len(rq[r].content)
  /\ store' = store \ rq[r].to_delete
  /\ rq' = [rq EXCEPT ![r].pc = "remove_md"]
  /\ UNCHANGED <<inliner_vars, run_vars, engine_vars, schema_vars, tool_vars>>

\* os.remove(md_path); return converted
RemoveMd(r) ==
  /\ rq[r].pc = "remove_md"
  /\ store' = store \ {md_path(rq[r].request_id)}
  /\ rq' = [rq EXCEPT ![r].pc = "respond"]
  /\ UNCHANGED <<inliner_vars, run_vars, engine_vars, schema_vars, tool_vars>>

\* the response, then shutil.rmtree(uploads_dir, ignore_errors=True)
Finish(r) ==
  /\ rq[r].pc = "respond"
  /\ store' = {f \in store :
                 ~StartsWith(f, uploads_dir(rq[r].request_id) \o <<"/">>)}
  /\ rq' = [rq EXCEPT ![r].pc = "done"]
  /\ UNCHANGED <<inliner_vars, run_vars, engine_vars, schema_vars, tool_vars>>

PairIdle ==
  /\ rq = [r \in Requests |-> NoRequest]
  /\ store = {}

(***************************************************************************)
(* The extraction output as a tree of dicts, lists and strings, and what   *)
(* _transform_item, _transform_strings and the repair after json.dumps     *)
(* make of it                                                              *)
(***************************************************************************)
\* the keys of a Question of the template, and of one of its sub_questions
QuestionKeys ==
  {"question_id", "grade", "volume", "chapter", "section", "subject",
   "question_content", "question_options", "question_images",
   "question_tables", "analysis_images", "difficulty", "question_type",
   "source", "knowledge_points", "sub_questions", "answer", "resolve",
   "source_year", "source_province"}
SubQuestionKeys == {"question_id", "question", "image", "question_type", "option"}
ListKeys ==
  {"question_options", "question_images", "question_tables", "analysis_images",
   "knowledge_points", "sub_questions", "option"}

Str(s) == [t |-> "str", v |-> s]
List(xs) == [t |-> "list", v |-> xs]
Dict(f) == [t |-> "dict", v |-> f]

\* the value the template asks for when nothing is known
Unknown(k) == IF k \in ListKeys THEN List(<<>>) ELSE Str(<<>>)

\* a string leaf that is one Markdown image: ![](imgs/a.png)
MdOpen == <<"!", "[", "]", "(">>
MdImage == MdOpen \o P_asset \o <<")">>

AtMostOne(S) == {{}} \cup {{k} : k \in S}

SubQuestion(missing, image) ==
  Dict([k \in SubQuestionKeys \ missing |->
          IF k = "image" THEN Str(image) ELSE Unknown(k)])

Question(missing, images, content, subs) ==
  Dict([k \in QuestionKeys \ missing |->
          IF k = "question_images" THEN List(images)
          ELSE IF k = "question_content" THEN Str(content)
          ELSE IF k = "sub_questions" THEN List(subs)
          ELSE Unknown(k)])

\* what the completion endpoint may answer: a Question that lacks no key or
\* one key, with or without an image, a Markdown image in its text, and a
\* sub-question that lacks no key or one key
Candidates ==
  {Question(m, i, c, s) :
     m \in AtMostOne(QuestionKeys),
     i \in {<<>>, <<Str(P_asset)>>},
     c \in {<<>>, MdImage},
     s \in {<<>>} \cup {<<SubQuestion(n, P_asset)>> : n \in AtMostOne(SubQuestionKeys)}}

\* _convert_paths on a list: the new list and the files read for it
convert_paths_tree(xs, d) ==
  LET hit(i) == /\ xs[i].t = "str"
                /\ ~HasScheme(xs[i].v)
                /\ isfile(d, FullPath(xs[i].v))
  IN [val |-> List([i \in DOMAIN xs |->
                      IF hit(i) THEN Str(to_base64(FullPath(xs[i].v))) ELSE xs[i]]),
      del |-> {FullPath(xs[i].v) : i \in {j \in DOMAIN xs : hit(j)}}]

\* _transform_item
RECURSIVE transform_item_tree(_, _)
transform_item_tree(item, d) ==
  IF item.t # "dict" THEN [val |-> item, del |-> {}]
  ELSE
    LET r(k) ==
          IF k \in FieldPlaces /\ item.v[k].t = "list"
            THEN convert_paths_tree(item.v[k].v, d)
          ELSE IF k = "sub_questions" /\ item.v[k].t = "list"
            THEN LET subs == item.v[k].v IN
                 [val |-> List([i \in DOMAIN subs |-> transform_item_tree(subs[i], d).val]),
                  del |-> UNION {transform_item_tree(subs[i], d).del : i \in DOMAIN subs}]
          ELSE [val |-> item.v[k], del |-> {}]
    IN [val |-> Dict([k \in DOMAIN item.v |-> r(k).val]),
        del |-> UNION {r(k).del : k \in DOMAIN item.v}]

\* _inline_convert_images_in_text on a leaf; of its three patterns the tree
\* model keeps the Markdown one, on a leaf that is one image
inline_markdown(s, d) ==
  LET path == SubSeq(s, Len(MdOpen) + 1, Len(s) - 1)
      hit == /\ Len(s) > Len(MdOpen) + 1
             /\ StartsWith(s, MdOpen)
             /\ s[Len(s)] = ")"
             /\ StartsWith(path, S_imgs) \/ isabs(path)
             /\ ~HasScheme(path)
             /\ isfile(d, FullPath(path))
  IN IF hit
       THEN [val |-> Str(MdOpen \o DataUri(FullPath(path), to_base64(FullPath(path)))
                         \o <<")">>),
             del |-> {FullPath(path)}]
       ELSE [val |-> Str(s), del |-> {}]

\* _transform_strings
RECURSIVE transform_strings_tree(_, _)
transform_strings_tree(value, d) ==
  IF value.t = "str" THEN inline_markdown(value.v, d)
  ELSE IF value.t = "list" THEN
    [val |-> List([i \in DOMAIN value.v |-> transform_strings_tree(value.v[i], d).val]),
     del |-> UNION {transform_strings_tree(value.v[i], d).del : i \in DOMAIN value.v}]
  ELSE
    [val |-> Dict([k \in DOMAIN value.v |-> transform_strings_tree(value.v[k], d).val]),
     del |-> UNION {transform_strings_tree(value.v[k], d).del : k \in DOMAIN value.v}]

\* the substitution of "(imgs/[^"]+)" in the serialized tree: every string
\* value that is such a path and names a file
RECURSIVE repair_tree(_, _)
repair_tree(value, d) ==
  IF value.t = "str" THEN
    IF StartsWith(value.v, S_imgs) /\ isfile(d, FullPath(value.v))
      THEN Str(to_base64(FullPath(value.v)))
      ELSE value
  ELSE IF value.t = "list" THEN
    List([i \in DOMAIN value.v |-> repair_tree(value.v[i], d)])
  ELSE Dict([k \in DOMAIN value.v |-> repair_tree(value.v[k], d)])

\* data = [_transform_item(x, base_dir, cache, to_delete) for x in data]
TreeTransformItem ==
  /\ qpc = "loaded"
  /\ LET r == transform_item_tree(question, fs) IN
       /\ question' = r.val
       /\ to_delete' = to_delete \cup r.del
  /\ qpc' = "transform_strings"
  /\ UNCHANGED <<fs, places, json_input, parses, data, cache, reads, ipc,
                 reapplied, prev_out>>
  /\ UNCHANGED <<run_vars, engine_vars, pair_vars, tool_vars>>

\* data = [_transform_strings(x, base_dir, cache, to_delete) for x in data]
TreeTransformStrings ==
  /\ qpc = "transform_strings"
  /\ LET r == transform_strings_tree(question, fs) IN
       /\ question' = r.val
       /\ to_delete' = to_delete \cup r.del
  /\ qpc' = "dumps"
  /\ UNCHANGED <<fs, places, json_input, parses, data, cache, reads, ipc,
                 reapplied, prev_out>>
  /\ UNCHANGED <<run_vars, engine_vars, pair_vars, tool_vars>>

\* s = json.dumps(data), the repair of s, the cleanup loop; return s
TreeDumps ==
  /\ qpc = "dumps"
  /\ question' = repair_tree(question, fs)
  /\ fs' = purge(fs, to_delete)
  /\ qpc' = "returned"
  /\ UNCHANGED <<places, json_input, parses, data, cache, to_delete, reads, ipc,
                 reapplied, prev_out>>
  /\ UNCHANGED <<run_vars, engine_vars, pair_vars, tool_vars>>

SchemaIdle ==
  /\ question = Str(<<>>)
  /\ qpc = "idle"

(***************************************************************************)
(* _save_markdown_images: the page images written under output_dir         *)
(***************************************************************************)
\* the relative paths a page may declare in its markdown_images
R_nested == <<"i", "m", "g", "s", "/", "t", "/", "c", ".", "p", "n", "g">>
R_top == <<"b", ".", "p", "n", "g">>
RelPaths == {P_asset, R_nested, R_top}

\* the image object page k holds under rel_path; 0 is a file of an
\* earlier run
Image(k, rel_path) == [page |-> k, rel |-> rel_path]

\* save_path.parent.mkdir(parents=True, exist_ok=True): the directories
\* above a path
Parents(path) ==
  {SubSeq(path, 1, i - 1) : i \in {j \in 2..Len(path) : path[j] = "/"}}

NoFiles == [f \in {} |-> Image(0, <<>>)]

\* variant of the inner loop that keeps a file that is already there
save_item_keep_first(st, k, item) ==
  LET paths == {join(BaseDir, r) : r \in item} IN
  [files |-> [f \in DOMAIN st.files \cup paths |->
                IF f \in DOMAIN st.files THEN st.files[f]
                ELSE Image(k, CHOOSE r \in item : join(BaseDir, r) = f)],
   dirs |-> st.dirs \cup UNION {Parents(f) : f \in paths}]

\* for rel_path, image in item.items(): mkdir of the parent, image.save
save_item(st, k, item) ==
  LET paths == {join(BaseDir, r) : r \in item} IN
  [files |-> [f \in DOMAIN st.files \cup paths |->
                IF f \in paths
                  THEN Image(k, CHOOSE r \in item : join(BaseDir, r) = f)
                  ELSE st.files[f]],
   dirs |-> st.dirs \cup UNION {Parents(f) : f \in paths}]

\* one iteration of "for item in items" ("if not item: continue" writes
\* nothing)
SaveItem ==
  /\ spc < Len(markdown_images)
  /\ LET st == save_item([files |-> saved, dirs |-> made_dirs],
                         spc + 1, markdown_images[spc + 1]) IN
       /\ saved' = st.files
       /\ made_dirs' = st.dirs
  /\ spc' = spc + 1
  /\ UNCHANGED markdown_images
  /\ UNCHANGED <<inliner_vars, run_vars, engine_vars, pair_vars, schema_vars, rename_vars>>

SaveIdle ==
  /\ markdown_images = <<>>
  /\ saved = NoFiles
  /\ made_dirs = {}
  /\ spc = 0

(***************************************************************************)
(* The sequential rename utilities: rename_images_in_dir (Pipeline.py) and *)
(* rename_images (rename_image.py) on one directory                        *)
(***************************************************************************)
N_short == <<"0", ".", "p", "n", "g">>
N_0001 == <<"0", "0", "0", "1", ".", "p", "n", "g">>
N_0002 == <<"0", "0", "0", "2", ".", "p", "n", "g">>
N_a == <<"a", ".", "p", "n", "g">>
N_img_0001 == <<"i", "m", "g", "_", "0", "0", "0", "1", ".", "p", "n", "g">>

\* the names a directory may hold before the utility runs
FolderNames == {N_short, N_0001, N_0002, N_a, N_img_0001, N_txt}

\* IMAGE_EXTENSIONS of Pipeline.py, extensions of rename_images
RenameExts ==
  {<<".", "p", "n", "g">>, <<".", "j", "p", "g">>, <<".", "j", "p", "e", "g">>,
   <<".", "b", "m", "p">>, <<".", "w", "e", "b", "p">>}

EndsWith(s, suf) ==
  Len(s) >= Len(suf) /\ SubSeq(s, Len(s) - Len(suf) + 1, Len(s)) = suf

\* is_image_file(filename); f.lower().endswith(extensions)
is_image_file(u, filename) ==
  IF u = "rename_images_in_dir"
    THEN splitext(filename) \in RenameExts
    ELSE \E e \in RenameExts : EndsWith(filename, e)

DecimalDigits == <<"0", "1", "2", "3", "4", "5", "6", "7", "8", "9">>

\* f"{index:04d}", str(i).zfill(4), for a number below 10000
zfill(i) ==
  <<DecimalDigits[(i \div 1000) + 1], DecimalDigits[((i \div 100) % 10) + 1],
    DecimalDigits[((i \div 10) % 10) + 1], DecimalDigits[(i % 10) + 1]>>

\* new_name: 0001.ext, or img_0001.ext with the default prefix
new_name(u, i, filename) ==
  IF u = "rename_images_in_dir"
    THEN zfill(i) \o splitext(filename)
    ELSE <<"i", "m", "g", "_">> \o zfill(i) \o splitext(filename)

\* os.rename(old_path, new_path): a file at new_path is replaced
os_rename(dir, old, new) ==
  [n \in (DOMAIN dir \ {old}) \cup {new} |-> IF n = new THEN dir[old] ELSE dir[n]]

\* the listing of the directory, filtered and sorted; index = 1
ListFolder ==
  /\ npc = "start"
  /\ LET imgs == {n \in DOMAIN folder : is_image_file(utility, n)} IN
       image_files' = sorted(CHOOSE q \in Perms(imgs) : TRUE)
  /\ index' = 1
  /\ npc' = "loop"
  /\ UNCHANGED <<folder, utility>>
  /\ UNCHANGED <<inliner_vars, run_vars, engine_vars, pair_vars, schema_vars, save_vars>>

\* one iteration of the loop over the sorted names
RenameOne ==
  /\ npc = "loop"
  /\ index <= Len(image_files)
  /\ LET filename == image_files[index]
         new == new_name(utility, index, filename)
     IN IF filename \notin DOMAIN folder
          THEN npc' = "raised" /\ UNCHANGED folder
          ELSE /\ folder' = IF filename # new THEN os_rename(folder, filename, new)
                            ELSE folder
               /\ npc' = "loop"
  /\ index' = index + 1
  /\ UNCHANGED <<image_files, utility>>
  /\ UNCHANGED <<inliner_vars, run_vars, engine_vars, pair_vars, schema_vars, save_vars>>

NoFolder == [n \in {} |-> <<>>]

RenameIdle ==
  /\ folder = NoFolder
  /\ image_files = <<>>
  /\ index = 0
  /\ utility = "none"
  /\ npc = "idle"

ToolsIdle == SaveIdle /\ RenameIdle

(***************************************************************************)
(* Specifications                                                          *)
(***************************************************************************)
RunIdle ==
  /\ disk = EmptyDisk
  /\ uploads = <<>>
  /\ input_arg = [is_list |-> TRUE, paths |-> <<>>]
  /\ todo = <<>>
  /\ markdown_list = <<>>
  /\ predicts = 0
  /\ extracts = 0
  /\ converts = 0
  /\ rpc = "idle"
  /\ outcome = "none"
  /\ hpc = "cli"
  /\ status = 0

EngineIdle ==
  /\ instance = 0
  /\ lock = 0
  /\ tpc = [t \in Threads |-> "idle"]
  /\ built = 0
  /\ got = [t \in Threads |-> 0]

\* the output directory before a run: empty; outside it a file may exist,
\* and may be unreadable
RunFS ==
  {d \in [Files -> {"absent", "ok", "locked"}] :
     d[F_asset] = "absent" /\ d[F_plain] = "absent" /\ d[F_md] = "absent"}

\* run_unified called from the command line on a list or on one path
CliStart ==
  /\ disk = CliDisk
  /\ uploads = <<>>
  /\ \/ /\ input_arg \in [is_list : {TRUE}, paths : SeqsUpTo(CliNames, MaxItems)]
     \/ /\ input_arg \in [is_list : {FALSE}, paths : [1..1 -> CliNames]]
  /\ rpc = "start"
  /\ hpc = "cli"

\* POST /parse-docs with any upload
HttpStart ==
  /\ disk = EmptyDisk
  /\ uploads \in SeqsUpTo(UploadKinds, MaxUploads)
  /\ input_arg = [is_list |-> TRUE, paths |-> <<>>]
  /\ rpc = "idle"
  /\ hpc = "received"

Init ==
  /\ fs \in RunFS
  /\ InlinerIdle
  /\ EngineIdle
  /\ PairIdle
  /\ SchemaIdle
  /\ ToolsIdle
  /\ CliStart \/ HttpStart
  /\ todo = <<>>
  /\ markdown_list = <<>>
  /\ predicts = 0
  /\ extracts = 0
  /\ converts = 0
  /\ outcome = "none"
  /\ status = 0

Next ==
  \/ Validate
  \/ SaveUploads
  \/ RunBegin
  \/ RecognizeItem
  \/ Aggregate
  \/ Extract
  \/ Convert
  \/ RemoveMarkdown
  \/ Respond
  \/ BackgroundTasks

\* one pipeline run, from the command line or from an HTTP request
Spec == Init /\ [][Next]_vars

InitInline ==
  /\ fs \in InlineFS
  /\ InlinerStart
  /\ RunIdle
  /\ EngineIdle
  /\ PairIdle
  /\ SchemaIdle
  /\ ToolsIdle

\* one call of convert_images_in_json on any candidate and file system
SpecInline == InitInline /\ [][InlinerNext]_vars

\* the same, followed by a call on its own output
SpecReapply == InitInline /\ [][InlinerNext \/ Reapply]_vars

\* documents with one reference more, over one image list and two embedded
\* forms, each reference naming the page asset or the outside file
CrowdedPlaces == {"question_images", "html_single", "markdown"}
CrowdedStrings == {P_asset, P_abs}

InitCrowded ==
  /\ fs \in InlineFS
  /\ places \in [1..(MaxRefs + 1) -> CrowdedPlaces]
  /\ json_input \in [1..Len(places) -> CrowdedStrings]
  /\ parses \in LoadsOutcomes
  /\ data = json_input
  /\ cache = EmptyCache
  /\ to_delete = {}
  /\ reads = ZeroReads
  /\ ipc = "call"
  /\ reapplied = FALSE
  /\ prev_out = <<>>
  /\ RunIdle
  /\ EngineIdle
  /\ PairIdle
  /\ SchemaIdle
  /\ ToolsIdle

\* one call of convert_images_in_json on such a document
SpecCrowded == InitCrowded /\ [][InlinerNext]_vars

InitEngine ==
  /\ fs = [f \in Files |-> "absent"]
  /\ InlinerIdle
  /\ RunIdle
  /\ EngineIdle
  /\ PairIdle
  /\ SchemaIdle
  /\ ToolsIdle

EngineNext ==
  \E t \in Threads :
    \/ Call(t)
    \/ FirstCheck(t)
    \/ Acquire(t)
    \/ SecondCheck(t)
    \/ Construct(t)
    \/ Assign(t)
    \/ Return(t)

\* threads calling _init_pipeline again and again
SpecEngine == InitEngine /\ [][EngineNext]_vars

\* the file outside the server's directories exists or not
InitPair ==
  /\ fs = [f \in Files |-> "absent"]
  /\ InlinerIdle
  /\ RunIdle
  /\ EngineIdle
  /\ rq = [r \in Requests |-> NoRequest]
  /\ store \in {{}, {F_abs}}
  /\ SchemaIdle
  /\ ToolsIdle

PairNext ==
  \E r \in Requests :
    \/ Receive(r)
    \/ SaveUpload(r)
    \/ WriteMarkdown(r)
    \/ ExtractContent(r)
    \/ ConvertStart(r)
    \/ CheckRef(r)
    \/ ReadRef(r)
    \/ Purge(r)
    \/ RemoveMd(r)
    \/ Finish(r)

\* requests served at the same time
SpecPair == InitPair /\ [][PairNext]_vars

\* json.loads has returned a list with one Question; the page asset exists
\* or not
InitSchema ==
  /\ fs \in {d \in [Files -> {"absent", "ok"}] :
                d[F_plain] = "absent" /\ d[F_abs] = "absent" /\ d[F_md] = "absent"}
  /\ InlinerIdle
  /\ RunIdle
  /\ EngineIdle
  /\ PairIdle
  /\ ToolsIdle
  /\ question \in Candidates
  /\ qpc = "loaded"

SchemaNext ==
  \/ TreeTransformItem
  \/ TreeTransformStrings
  \/ TreeDumps

\* convert_images_in_json on the tree of a Question
SpecSchema == InitSchema /\ [][SchemaNext]_vars

\* the pages declare any relative paths; output_dir exists and may hold
\* the file of an earlier run
InitSave ==
  /\ fs = [f \in Files |-> "absent"]
  /\ InlinerIdle
  /\ RunIdle
  /\ EngineIdle
  /\ PairIdle
  /\ SchemaIdle
  /\ markdown_images \in SeqsUpTo(SUBSET RelPaths, MaxPages)
  /\ saved \in {NoFiles, [f \in {F_asset} |-> Image(0, P_asset)]}
  /\ made_dirs = {BaseDir} \cup UNION {Parents(f) : f \in DOMAIN saved}
  /\ spc = 0
  /\ RenameIdle

\* _save_markdown_images on the pages of one run
SpecSave == InitSave /\ [][SaveItem]_vars

\* a directory of up to MaxFiles files, each holding the content it was
\* created with, and one of the two utilities called on it
InitRename ==
  /\ fs = [f \in Files |-> "absent"]
  /\ InlinerIdle
  /\ RunIdle
  /\ EngineIdle
  /\ PairIdle
  /\ SchemaIdle
  /\ SaveIdle
  /\ \E names \in SUBSET FolderNames :
       /\ Cardinality(names) <= MaxFiles
       /\ folder = [n \in names |-> n]
  /\ image_files = <<>>
  /\ index = 0
  /\ utility \in {"rename_images_in_dir", "rename_images"}
  /\ npc = "start"

RenameNext ==
  \/ ListFolder
  \/ RenameOne

SpecRename == InitRename /\ [][RenameNext]_vars


(***************************************************************************)
(* Claims                                                                  *)
(***************************************************************************)
Terminated == rpc \in {"done", "raised"}

(***************************************************************************)
(* C1: within one call of convert_images_in_json every file is read and    *)
(* base64-encoded at most once, however often and wherever it is           *)
(* referenced, on the structured path and on the parse-failure path.       *)
(***************************************************************************)
C1_ReadAtMostOnce == \A f \in Files : reads[f] <= 1

(***************************************************************************)
(* C2: inlining is idempotent: a call of convert_images_in_json on the     *)
(* output of a previous call, with the same base_dir, returns that output  *)
(* unchanged.                                                              *)
(***************************************************************************)
C2_Idempotent == (reapplied /\ ipc = "returned") => data = prev_out

(***************************************************************************)
(* C3: when run_unified has terminated, by returning or by raising, every  *)
(* path that was added to the deletion set during the run is gone from     *)
(* disk.                                                                   *)
(***************************************************************************)
C3_DeletionSetPurged ==
  Terminated => \A f \in to_delete : fs[f] = "absent"

(***************************************************************************)
(* C4: every file the inliner read during one call is in the deletion set  *)
(* and is gone from disk when the call has returned, whichever pass read   *)
(* it.                                                                     *)
(***************************************************************************)
C4_ReadFilesPurged ==
  ipc = "returned" =>
    \A f \in Files : reads[f] > 0 => (f \in to_delete /\ fs[f] = "absent")

(***************************************************************************)
(* C5: the aggregated markdown file no longer exists when run_unified has  *)
(* terminated, whether it returned or raised.                              *)
(***************************************************************************)
C5_MarkdownRemoved == Terminated => fs[F_md] = "absent"

(***************************************************************************)
(* C6: run_unified rejects an empty input list and an input list with more *)
(* than one PDF with an input error, and then neither the recognition      *)
(* engine nor extract_content is invoked.                                  *)
(***************************************************************************)
NumPdfs(paths) ==
  Cardinality({paths[i] : i \in {j \in DOMAIN paths : Exists(paths[j]) /\ is_pdf(paths[j])}})

C6_RejectsBadLists ==
  (rpc # "idle" /\ input_arg.is_list
     /\ (input_arg.paths = <<>> \/ NumPdfs(input_arg.paths) > 1))
  => /\ predicts = 0
     /\ extracts = 0
     /\ rpc # "done"
     /\ (rpc = "raised" => outcome = "ValueError")

(***************************************************************************)
(* C7: for every input form, if recognition produced no page at all,       *)
(* extract_content is never called.                                        *)
(***************************************************************************)
C7_NoExtractWithoutPages == extracts > 0 => markdown_list # <<>>

(***************************************************************************)
(* C8: for a list input, the pages handed to the markdown concatenation    *)
(* are the pages of the items in input-list order: a directory gives the   *)
(* pages of its image files in lexicographic filename order, a PDF its     *)
(* pages in engine order, an image its page; nothing is reordered or       *)
(* duplicated.                                                             *)
(***************************************************************************)
RECURSIVE Flatten(_)
Flatten(ss) == IF ss = <<>> THEN <<>> ELSE ss[1] \o Flatten(Tail(ss))

FilePages(name, obj) ==
  IF is_pdf(name) THEN [k \in 1..obj.npages |-> Page(obj.id, k)]
  ELSE IF is_image(name) /\ obj.decodes THEN <<Page(obj.id, 1)>>
  ELSE <<>>

\* the image files of a directory, smallest name first
InNameOrder(obj) ==
  LET imgs == {n \in DOMAIN obj.entries : obj.entries[n].kind = "file" /\ is_image(n)}
  IN CHOOSE q \in Perms(imgs) : \A i, j \in DOMAIN q : i < j => str_less(q[i], q[j])

ItemPages(p) ==
  IF ~Exists(p) THEN <<>>
  ELSE IF disk[p].kind = "dir"
    THEN LET q == InNameOrder(disk[p])
         IN Flatten([k \in DOMAIN q |-> FilePages(q[k], disk[p].entries[q[k]])])
  ELSE FilePages(p, disk[p])

ExpectedPages(paths) == Flatten([i \in DOMAIN paths |-> ItemPages(paths[i])])

C8_ListOrderPreserved ==
  (rpc = "extract" /\ input_arg.is_list)
  => markdown_list = ExpectedPages(input_arg.paths)

\* a directory with two images listed after a two-page PDF has been
\* recognized and aggregated
C8_Witness ==
  /\ rpc = "extract"
  /\ input_arg.is_list
  /\ input_arg.paths = <<N_pdf, N_dir>>
  /\ Len(markdown_list) = 4

(***************************************************************************)
(* C9: within one HTTP request the pages of the aggregated markdown follow *)
(* the order in which the files were uploaded, also when a PDF is uploaded *)
(* before images.                                                          *)
(***************************************************************************)
UploadPages(files) ==
  Flatten([i \in DOMAIN files |->
             FilePages(files[i].filename,
                       File(UploadIds[i], files[i].decodes, files[i].npages))])

C9_UploadOrderPreserved ==
  (hpc = "running" /\ rpc = "extract") => markdown_list = UploadPages(uploads)

(***************************************************************************)
(* C10: under any interleaving of _init_pipeline calls the engine          *)
(* constructor runs at most once, callers that find no instance wait for   *)
(* the one initialization (one thread at a time is past the lock), and     *)
(* every call returns the same instance.                                   *)
(***************************************************************************)
InsideLock(t) == tpc[t] \in {"second_check", "construct", "assign", "return"}

Missing(p) == FullPath(p) \notin Files \/ fs[FullPath(p)] = "absent"

\* the file system is still the one the call started on
BeforePurge == ipc \in {"call", "transform_item", "transform_strings",
                        "regex_repair", "cleanup", "raised", "parse_failure"}

C11_MissingLeftAlone ==
  BeforePurge =>
    /\ \A i \in DOMAIN json_input :
         Missing(json_input[i]) =>
           /\ data[i] = json_input[i]
           /\ FullPath(json_input[i]) \notin DOMAIN cache
           /\ FullPath(json_input[i]) \notin to_delete
           /\ FullPath(json_input[i]) \in Files => reads[FullPath(json_input[i])] = 0
    /\ (parses # "RecursionError" /\ \A i \in DOMAIN json_input : Missing(json_input[i]))
         => ipc # "raised"

\* both resolvers have met imgs/a.png, which does not exist: once as an
\* element of question_images, once as the src of an <img> tag
C11_Witness ==
  /\ ipc = "cleanup"
  /\ places = <<"question_images", "html_single">>
  /\ json_input = <<P_asset, P_asset>>
  /\ fs[F_asset] = "absent"
  /\ data = json_input

(***************************************************************************)
(* C12: a referenced file that exists but cannot be read is no error for   *)
(* the inliner: convert_images_in_json does not raise, and the reference   *)
(* is returned as the original string.                                     *)
(***************************************************************************)
Unreadable(p) == FullPath(p) \in Files /\ fs[FullPath(p)] = "locked"

C12_ReadFailureTolerated ==
  /\ parses # "RecursionError" => ipc # "raised"
  /\ ipc = "returned" =>
       \A i \in DOMAIN json_input :
         Unreadable(json_input[i]) => data[i] = json_input[i]

(***************************************************************************)
(* C13: for a candidate string that fails JSON parsing,                    *)
(* convert_images_in_json returns without raising, and when the string     *)
(* holds no inlinable reference (no <img> or Markdown reference and no     *)
(* bare quoted "imgs/..." that resolves to an existing file) the returned  *)
(* string is the input string.                                             *)
(***************************************************************************)
Inlinable(i) ==
  /\ ~Missing(json_input[i])
  /\ places[i] \in TextPlaces \/ StartsWith(json_input[i], S_imgs)

C13_MalformedReturnedAsIs ==
  parses # "ok" =>
    /\ ipc # "raised"
    /\ (ipc = "returned" /\ \A i \in DOMAIN json_input : ~Inlinable(i))
         => data = json_input

(***************************************************************************)
(* C14: on the parse-failure path every bare double-quoted "imgs/<name>"   *)
(* of the raw text whose file exists under base_dir is replaced by the     *)
(* base64 content of that file, one whose file does not exist is left as   *)
(* it is, and other quoted strings are unchanged.                          *)
(***************************************************************************)
BareQuoted(i) == places[i] \in FieldPlaces \cup {"other"}

C14_FallbackInlinesBareAssets ==
  (parses = "JSONDecodeError" /\ ipc = "returned") =>
    \A i \in DOMAIN json_input :
      BareQuoted(i) =>
        data[i] = IF StartsWith(json_input[i], S_imgs) /\ ~Missing(json_input[i])
                    THEN to_base64(FullPath(json_input[i]))
                    ELSE json_input[i]

(***************************************************************************)
(* C15: POST /parse-docs answers 400 without calling run_unified when the  *)
(* upload is empty, when no uploaded file has an image or PDF extension,   *)
(* or when more than one PDF is uploaded; unsupported files next to a      *)
(* usable one do not fail the request.                                     *)
(***************************************************************************)
Usable(files) ==
  {i \in DOMAIN files : is_image(files[i].filename) \/ is_pdf(files[i].filename)}

BadUpload(files) ==
  \/ Usable(files) = {}
  \/ Cardinality({i \in DOMAIN files : is_pdf(files[i].filename)}) > 1

C15_BadUploadsRejected ==
  hpc \notin {"cli", "received"} =>
    IF BadUpload(uploads)
      THEN /\ hpc = "rejected"
           /\ status = 400
           /\ rpc = "idle"
           /\ predicts = 0
           /\ extracts = 0
      ELSE hpc # "rejected"

\* an upload of a text file and an image has been accepted and its run is
\* under way
C15_Witness ==
  /\ hpc = "running"
  /\ Len(uploads) = 2
  /\ uploads[1].filename = N_txt
  /\ uploads[2].filename = N_img
  /\ rpc = "recognize"

(***************************************************************************)
(* C16: a request that passed validation and whose recognition yields no   *)
(* content is answered with status 500; only input errors give 400.        *)
(***************************************************************************)
C16_NoContentIs500 ==
  (hpc = "responded" /\ rpc = "raised" /\ markdown_list = <<>>) => status = 500

(***************************************************************************)
(* C17: when the completion endpoint call raises, extract_content has run  *)
(* exactly once in that run and is not tried again,                        *)
(* convert_images_in_json is never called, run_unified ends by raising     *)
(* that error, and the HTTP response has status 500.                       *)
(***************************************************************************)
C17_ExtractionFailureFatal ==
  /\ extracts <= 1
  /\ outcome = "APIError" =>
       /\ extracts = 1
       /\ converts = 0
       /\ rpc = "raised"
       /\ hpc = "responded" => status = 500

\* the response to a request whose extraction call raised
C17_Witness ==
  /\ outcome = "APIError"
  /\ hpc = "responded"
  /\ status = 500
  /\ converts = 0

(***************************************************************************)
(* C18: when an HTTP request has completed, response sent and background   *)
(* tasks run, its upload directory is gone and its output directory holds  *)
(* no file: neither the aggregated markdown nor any page asset.            *)
(***************************************************************************)
\* the files of the output directory of the request
OutputFiles == {f \in Files : StartsWith(f, BaseDir \o <<"/">>)}

C18_RequestLeavesNothing ==
  hpc = "completed" =>
    /\ disk = EmptyDisk
    /\ \A f \in OutputFiles : fs[f] = "absent"

(***************************************************************************)
(* C19: under any interleaving of concurrent HTTP requests with distinct   *)
(* request ids the paths the requests write are disjoint, and every        *)
(* convert_images_in_json call starts with an empty cache and an empty     *)
(* deletion set, which never hold an entry of another request.             *)
(***************************************************************************)
\* the paths the references of request r resolve to
OwnReferences(r) ==
  {join(output_dir(rq[r].request_id), rq[r].content[i]) :
     i \in DOMAIN rq[r].content}

Complete(q) ==
  /\ q.t = "dict"
  /\ QuestionKeys \subseteq DOMAIN q.v
  /\ \A i \in DOMAIN q.v["sub_questions"].v :
       SubQuestionKeys \subseteq DOMAIN q.v["sub_questions"].v[i].v

C20_SchemaComplete == qpc = "returned" => Complete(question)


Declaring(rel) == {k \in 1..spc : rel \in markdown_images[k]}

Latest(S) == CHOOSE k \in S : \A j \in S : j <= k

C22_LastPageWins ==
  \A rel \in RelPaths :
    Declaring(rel) # {} =>
      /\ join(BaseDir, rel) \in DOMAIN saved
      /\ saved[join(BaseDir, rel)] = Image(Latest(Declaring(rel)), rel)
      /\ Parents(join(BaseDir, rel)) \subseteq made_dirs

\* both pages declared imgs/a.png, only the first imgs/t/c.png
C22_Witness ==
  /\ spc = 2
  /\ Len(markdown_images) = 2
  /\ P_asset \in markdown_images[1] \cap markdown_images[2]
  /\ R_nested \in markdown_images[1] \ markdown_images[2]
  /\ saved[F_asset] = Image(2, P_asset)
  /\ saved[join(BaseDir, R_nested)] = Image(1, R_nested)


(***************************************************************************)
(* C23: in the textual pass the path of an <img src="..">, <img src='..'>  *)
(* or ![alt](..) occurrence becomes a data:<mime>;base64,<payload> URI     *)
(* exactly when it begins with imgs/ or is absolute and resolves to an     *)
(* existing file; with a scheme prefix, or as any other relative path, it  *)
(* stays as it is.  Stated for the files that can be read, when the        *)
(* textual passes of the call are over and before any file is removed.     *)
(***************************************************************************)
TextDone ==
  \/ ipc = "cleanup"
  \/ ipc = "returned" /\ parses = "JSONDecodeError" /\ ~reapplied

Eligible(p) ==
  /\ StartsWith(p, S_imgs) \/ isabs(p)
  /\ ~HasScheme(p)
  /\ isfile(fs, FullPath(p))

AsDataUri(p) == DataUri(FullPath(p), to_base64(FullPath(p)))

C23_TextualRewriteRule ==
  TextDone =>
    \A i \in DOMAIN places :
      (places[i] \in TextPlaces /\ ~Unreadable(json_input[i])) =>
        data[i] = IF Eligible(json_input[i])
                    THEN AsDataUri(json_input[i])
                    ELSE json_input[i]


(***************************************************************************)
(* C24: when a file is referenced in one document both as an element of    *)
(* question_images / analysis_images and inside an <img> or Markdown       *)
(* reference, the list element becomes the bare base64 payload B and the   *)
(* embedded reference data:<mime>;base64,B with the same B, the mime type  *)
(* being that of the file extension.  Stated for a readable file and a     *)
(* path the textual pass takes (imgs/ or absolute), when the passes are    *)
(* over.                                                                   *)
(***************************************************************************)
SharedFile(i, j) ==
  /\ places[i] \in FieldPlaces
  /\ places[j] \in TextPlaces
  /\ FullPath(json_input[i]) = FullPath(json_input[j])
  /\ Eligible(json_input[j])
  /\ ~Unreadable(json_input[j])

C24_SamePayloadBothForms ==
  ipc = "cleanup" =>
    \A i, j \in DOMAIN places :
      SharedFile(i, j) =>
        /\ data[i] = to_base64(FullPath(json_input[i]))
        /\ data[j] = S_data \o mime_from_ext(FullPath(json_input[j])) \o S_base64 \o data[i]


(***************************************************************************)
(* C25: on the structured path a string value that is a bare path under a  *)
(* key other than question_images / analysis_images is left unchanged in   *)
(* the output, also when the file exists; the substitution of bare quoted  *)
(* "imgs/..." strings belongs to the parse-failure path only.              *)
(***************************************************************************)
C25_OtherKeysUntouched ==
  (parses = "ok" /\ ipc \in {"cleanup", "returned"}) =>
    \A i \in DOMAIN places :
      places[i] = "other" => data[i] = json_input[i]


(***************************************************************************)
(* C26: within one call no file is removed before the output is complete,  *)
(* and every reference to one existing file, in an image list or embedded  *)
(* in a string, is replaced by its payload however many there are: until   *)
(* the cleanup the file system does not change, and when the passes are    *)
(* over no such reference is still a path.                                 *)
(***************************************************************************)
Inlined(i) ==
  IF places[i] \in FieldPlaces
    THEN data[i] = to_base64(FullPath(json_input[i]))
    ELSE data[i] = AsDataUri(json_input[i])

Resolvable(i) ==
  /\ places[i] \in FieldPlaces \cup TextPlaces
  /\ places[i] \in TextPlaces => Eligible(json_input[i])
  /\ ~HasScheme(json_input[i])
  /\ isfile(fs, FullPath(json_input[i]))
  /\ ~Unreadable(json_input[i])

C26_AllReferencesInlined ==
  /\ [](ipc = "cleanup" => \A i \in DOMAIN places : Resolvable(i) => Inlined(i))
  /\ [][ipc # "cleanup" => fs' = fs]_vars


(***************************************************************************)
(* C27: at every point of the structured path the deletion set is the key  *)
(* set of the cache: a resolved path is scheduled for deletion exactly     *)
(* when its payload has been cached, whichever pass reached it first and   *)
(* however often it is referenced.                                         *)
(***************************************************************************)
C27_DeletionSetIsCacheKeys == parses = "ok" => to_delete = DOMAIN cache

\* both passes have put a file in the cache: the image list the outside
\* file, the textual pass the page asset
C27_Witness ==
  /\ parses = "ok"
  /\ ipc = "cleanup"
  /\ places = <<"question_images", "markdown">>
  /\ json_input = <<P_abs, P_asset>>
  /\ DOMAIN cache = {F_abs, F_asset}
  /\ to_delete = {F_abs, F_asset}


(***************************************************************************)
(* C28: every file convert_images_in_json reads or removes lies inside     *)
(* base_dir; a reference that is an absolute path, or that leaves          *)
(* base_dir, never has a file outside base_dir inlined or deleted.         *)
(***************************************************************************)
InsideBaseDir(f) == StartsWith(f, BaseDir \o <<"/">>)

C28_OnlyFilesOfBaseDir ==
  \A f \in Files :
    (reads[f] > 0 \/ f \in to_delete) => InsideBaseDir(f)


(***************************************************************************)
(* C29: _save_uploads stores every uploaded file at a local path of its    *)
(* own: for any upload list, also one with two files of the same           *)
(* filename, the returned paths are pairwise distinct and each path holds  *)
(* the content of its upload.                                              *)
(***************************************************************************)
C29_UploadsKeptApart ==
  (hpc = "running" /\ rpc = "start") =>
    LET c == classify_files(uploads)
        to_save == c.images \o c.pdfs
        saved_paths == input_arg.paths
    IN /\ Len(saved_paths) = Len(to_save)
       /\ \A j, k \in DOMAIN saved_paths : j # k => saved_paths[j] # saved_paths[k]
       /\ \A k \in DOMAIN saved_paths :
            /\ saved_paths[k] \in DOMAIN disk
            /\ disk[saved_paths[k]].id = UploadIds[to_save[k]]


(***************************************************************************)
(* C30: the rename utilities never overwrite a file: when                  *)
(* rename_images_in_dir / rename_images has ended, the directory holds as  *)
(* many image files as it listed at its start, and the content of each     *)
(* listed file is under exactly one name.                                  *)
(***************************************************************************)
RenameDone == npc = "loop" /\ index > Len(image_files)

ImagesIn(dir) == {n \in DOMAIN dir : is_image_file(utility, n)}

C30_RenameKeepsEveryFile ==
  RenameDone =>
    /\ Cardinality(ImagesIn(folder)) = Len(image_files)
    /\ \A k \in DOMAIN image_files :
         Cardinality({n \in DOMAIN folder : folder[n] = image_files[k]}) = 1

====
